---- MODULE Spec2Model ----
(***************************************************************************)
(* Model of netstrat's time range chooser window                           *)
(* (src/windows/time_range_chooser.rs): the controller fields, the four    *)
(* crossbeam channels it is wired to, one frame of AppWindow::show, and    *)
(* the pure helpers parse_props / unpack_props.                            *)
(*                                                                         *)
(* Representation                                                          *)
(*   Date<Utc>   day number since 1970-01-01 (an integer)                  *)
(*   NaiveTime   [secs, frac]: seconds since midnight, nanoseconds         *)
(*   DateTime    [secs, nanos]: seconds since the epoch, nanoseconds       *)
(*   Option<T>   <<>> for None, <<x>> for Some(x)                          *)
(*   channel     the sequence of messages in flight, oldest first          *)
(***************************************************************************)
EXTENDS Integers, Sequences, FiniteSets, TLC

VARIABLES
    self,          \* the TimeRangeChooser fields (symbol .. interval)
    symbol_sub,    \* Receiver<String>: symbols in flight towards the window
    props_sub,     \* Receiver<Props>: Props in flight towards the window
    props_pub,     \* Sender<Props>: Props in flight on the "show" channel
    export_pub,    \* Sender<Props>: Props in flight on the "export" channel
    props_rx,      \* TRUE while the receiver of props_pub exists
    export_rx,     \* TRUE while the receiver of export_pub exists
    call,          \* a direct call of a function: its arguments and its result
    volume         \* the Volume widget's fields (data, val, enabled)

vars == <<self, symbol_sub, props_sub, props_pub, export_pub, props_rx, export_rx, call,
          volume>>

chans == <<symbol_sub, props_sub, props_pub, export_pub, props_rx, export_rx>>

-----------------------------------------------------------------------------
(* Bounds of the model *)

MaxDate == 1       \* dates are the day numbers 0..MaxDate
MaxQueue == 1      \* messages in flight on an inbound channel
MaxOut == 1        \* messages in flight on the two outbound channels together
MaxBars == 2       \* samples of a Data handed to set_data
MaxMs == 1500      \* format_ts is called on -MaxMs..MaxMs milliseconds
MaxFifo == 2       \* messages a producer sends on its inbound channel

-----------------------------------------------------------------------------
(* chrono values *)

None == <<>>
Some(x) == <<x>>

Limit == 1000

Intervals == {"Day", "Hour", "Minute"}

Dates == 0..MaxDate

NaiveTime(h, m, s, frac) == [secs |-> h * 3600 + m * 60 + s, frac |-> frac]

from_hms(h, m, s) == NaiveTime(h, m, s, 0)

hour(t) == t.secs \div 3600
minute(t) == (t.secs \div 60) % 60
second(t) == t.secs % 60

\* Date::and_time: the instant of time-of-day t on day d
and_time(d, t) == [secs |-> d * 86400 + t.secs, nanos |-> t.frac]

\* DateTime's ordering
Before(a, b) == a.secs < b.secs \/ (a.secs = b.secs /\ a.nanos < b.nanos)

\* DateTime::timestamp_millis: whole milliseconds since the epoch
timestamp_millis(dt) == dt.secs * 1000 + dt.nanos \div 1000000

-----------------------------------------------------------------------------
(* Props (netstrat::props) *)

start_time(p) == and_time(p.date_start, p.time_start)
end_time(p) == and_time(p.date_end, p.time_end)

is_valid(p) == Before(start_time(p), end_time(p))

-----------------------------------------------------------------------------
(* TimeInput (widgets::TimeInput): the text of an hour:minute:second field *)

TimeInput_new(h, m, s) == [val |-> <<h, m, s>>]

get_time(ti) ==
    IF /\ Len(ti.val) = 3
       /\ ti.val[1] \in 0..23
       /\ ti.val[2] \in 0..59
       /\ ti.val[3] \in 0..59
    THEN Some(from_hms(ti.val[1], ti.val[2], ti.val[3]))
    ELSE None

-----------------------------------------------------------------------------
(* TimeRangeChooser *)

\* parse_props with a slip: an absent end time falls back to the start time
parse_props_default_end(time_start_opt, time_end_opt, date_start, date_end, interval) ==
    IF time_start_opt = None THEN None
    ELSE LET time_end == IF time_end_opt = None THEN time_start_opt[1] ELSE time_end_opt[1]
             p == [date_start |-> date_start,
                   date_end   |-> date_end,
                   time_start |-> time_start_opt[1],
                   time_end   |-> time_end,
                   interval   |-> interval,
                   bounds     |-> <<>>,
                   limit      |-> Limit]
         IN Some([p EXCEPT !.bounds =
                    << <<timestamp_millis(start_time(p)),
                         timestamp_millis(end_time(p))>> >>])

\* parse_props with a slip: date_end is filled from date_start
parse_props_same_date(time_start_opt, time_end_opt, date_start, date_end, interval) ==
    IF time_start_opt = None THEN None
    ELSE IF time_end_opt = None THEN None
    ELSE LET p == [date_start |-> date_start,
                   date_end   |-> date_start,
                   time_start |-> time_start_opt[1],
                   time_end   |-> time_end_opt[1],
                   interval   |-> interval,
                   bounds     |-> <<>>,
                   limit      |-> Limit]
         IN Some([p EXCEPT !.bounds =
                    << <<timestamp_millis(start_time(p)),
                         timestamp_millis(end_time(p))>> >>])

\* parse_props with a slip: the bounds are left as first constructed, empty
parse_props_no_bounds(time_start_opt, time_end_opt, date_start, date_end, interval) ==
    IF time_start_opt = None THEN None
    ELSE IF time_end_opt = None THEN None
    ELSE Some([date_start |-> date_start,
               date_end   |-> date_end,
               time_start |-> time_start_opt[1],
               time_end   |-> time_end_opt[1],
               interval   |-> interval,
               bounds     |-> <<>>,
               limit      |-> Limit])

\* parse_props with a slip: the Bounds is built as (end, start)
parse_props_swapped_bounds(time_start_opt, time_end_opt, date_start, date_end, interval) ==
    IF time_start_opt = None THEN None
    ELSE IF time_end_opt = None THEN None
    ELSE LET p == [date_start |-> date_start,
                   date_end   |-> date_end,
                   time_start |-> time_start_opt[1],
                   time_end   |-> time_end_opt[1],
                   interval   |-> interval,
                   bounds     |-> <<>>,
                   limit      |-> Limit]
         IN Some([p EXCEPT !.bounds =
                    << <<timestamp_millis(end_time(p)),
                         timestamp_millis(start_time(p))>> >>])

parse_props(time_start_opt, time_end_opt, date_start, date_end, interval) ==
    IF time_start_opt = None THEN None
    ELSE IF time_end_opt = None THEN None
    ELSE LET p == [date_start |-> date_start,
                   date_end   |-> date_end,
                   time_start |-> time_start_opt[1],
                   time_end   |-> time_end_opt[1],
                   interval   |-> interval,
                   bounds     |-> <<>>,
                   limit      |-> Limit]
         IN Some([p EXCEPT !.bounds =
                    << <<timestamp_millis(start_time(p)),
                         timestamp_millis(end_time(p))>> >>])

\* unpack_props with a slip: the window is toggled when a Props is unpacked
unpack_props_toggles_visible(c, p) ==
    [c EXCEPT !.visible = ~c.visible,
              !.date_start = p.date_start,
              !.date_end = p.date_end,
              !.time_start_input =
                  TimeInput_new(hour(p.time_start), minute(p.time_start), second(p.time_start)),
              !.time_end_input =
                  TimeInput_new(hour(p.time_end), minute(p.time_end), second(p.time_end))]

\* unpack_props with a slip: the end time field is filled from time_start
unpack_props_end_from_start(c, p) ==
    [c EXCEPT !.date_start = p.date_start,
              !.date_end = p.date_end,
              !.time_start_input =
                  TimeInput_new(hour(p.time_start), minute(p.time_start), second(p.time_start)),
              !.time_end_input =
                  TimeInput_new(hour(p.time_start), minute(p.time_start), second(p.time_start))]

\* unpack_props with a slip: the interval of the Props is restored too
unpack_props_with_interval(c, p) ==
    [c EXCEPT !.date_start = p.date_start,
              !.date_end = p.date_end,
              !.interval = p.interval,
              !.time_start_input =
                  TimeInput_new(hour(p.time_start), minute(p.time_start), second(p.time_start)),
              !.time_end_input =
                  TimeInput_new(hour(p.time_end), minute(p.time_end), second(p.time_end))]

unpack_props(c, p) ==
    [c EXCEPT !.date_start = p.date_start,
              !.date_end = p.date_end,
              !.time_start_input =
                  TimeInput_new(hour(p.time_start), minute(p.time_start), second(p.time_start)),
              !.time_end_input =
                  TimeInput_new(hour(p.time_end), minute(p.time_end), second(p.time_end))]

new(visible, props) ==
    [symbol           |-> "",
     valid            |-> TRUE,
     visible          |-> visible,
     date_start       |-> props.date_start,
     date_end         |-> props.date_end,
     interval         |-> props.interval,
     time_start_input |->
         TimeInput_new(hour(props.time_start), minute(props.time_start), second(props.time_start)),
     time_end_input   |->
         TimeInput_new(hour(props.time_end), minute(props.time_end), second(props.time_end))]

\* lines 136-146: poll symbol_sub once; a timeout leaves the symbol alone
recv_symbol(c, q) ==
    IF q # <<>> THEN [c EXCEPT !.symbol = Head(q)] ELSE c

\* lines 148-158: poll props_sub once; a received Props is unpacked
recv_props(c, q) ==
    IF q # <<>> THEN unpack_props(c, Head(q)) ELSE c

\* drained with a slip: the poll empties the channel
drained_all(q) == <<>>

\* what recv_timeout leaves in the channel
drained(q) == IF q # <<>> THEN Tail(q) ELSE q

\* Sender::send on channel q whose receiver exists iff rx: Ok queues the
\* message, Err (receiver gone) hands it back and queues nothing
send(q, rx, msg) ==
    IF rx THEN [ok |-> TRUE, q |-> Append(q, msg)] ELSE [ok |-> FALSE, q |-> q]

\* show_clicked with a slip: the parsed Props is sent without asking is_valid
show_clicked_unchecked(c, q, rx) ==
    LET props == parse_props(get_time(c.time_start_input), get_time(c.time_end_input),
                             c.date_start, c.date_end, c.interval)
    IN IF props # None
       THEN LET send_result == send(q, rx, props[1])
            IN IF send_result.ok
               THEN [self |-> c, q |-> send_result.q, log |-> "sent props for show"]
               ELSE [self |-> c, q |-> send_result.q,
                     log |-> "failed to send props for show"]
       ELSE [self |-> [c EXCEPT !.valid = FALSE], q |-> q, log |-> "failed to parse props"]

\* show_clicked with a slip: a failed send is reported through the valid flag
show_clicked_err_invalid(c, q, rx) ==
    LET props == parse_props(get_time(c.time_start_input), get_time(c.time_end_input),
                             c.date_start, c.date_end, c.interval)
    IN IF props # None
       THEN IF is_valid(props[1])
            THEN LET send_result == send(q, rx, props[1])
                 IN IF send_result.ok
                    THEN [self |-> c, q |-> send_result.q,
                          log |-> "sent props for show"]
                    ELSE [self |-> [c EXCEPT !.valid = FALSE], q |-> send_result.q,
                          log |-> "failed to send props for show"]
            ELSE [self |-> [c EXCEPT !.valid = FALSE], q |-> q, log |-> "invalid props"]
       ELSE [self |-> [c EXCEPT !.valid = FALSE], q |-> q, log |-> "failed to parse props"]

\* show_clicked with a slip: the log lines of the two failures are exchanged
show_clicked_logs_swapped(c, q, rx) ==
    LET props == parse_props(get_time(c.time_start_input), get_time(c.time_end_input),
                             c.date_start, c.date_end, c.interval)
    IN IF props # None
       THEN IF is_valid(props[1])
            THEN LET send_result == send(q, rx, props[1])
                 IN IF send_result.ok
                    THEN [self |-> c, q |-> send_result.q,
                          log |-> "sent props for show"]
                    ELSE [self |-> c, q |-> send_result.q,
                          log |-> "failed to send props for show"]
            ELSE [self |-> [c EXCEPT !.valid = FALSE], q |-> q, log |-> "failed to parse props"]
       ELSE [self |-> [c EXCEPT !.valid = FALSE], q |-> q, log |-> "invalid props"]

\* lines 202-232: the "show" button was clicked; q, rx are props_pub.
\* Returns the fields, the channel and the line logged.
show_clicked(c, q, rx) ==
    LET props == parse_props(get_time(c.time_start_input), get_time(c.time_end_input),
                             c.date_start, c.date_end, c.interval)
    IN IF props # None
       THEN IF is_valid(props[1])
            THEN LET send_result == send(q, rx, props[1])
                 IN IF send_result.ok
                    THEN [self |-> c, q |-> send_result.q,
                          log |-> "sent props for show"]
                    ELSE [self |-> c, q |-> send_result.q,
                          log |-> "failed to send props for show"]
            ELSE [self |-> [c EXCEPT !.valid = FALSE], q |-> q, log |-> "invalid props"]
       ELSE [self |-> [c EXCEPT !.valid = FALSE], q |-> q, log |-> "failed to parse props"]

\* export_clicked with a slip: a parse failure is logged but valid is left alone
export_clicked_silent_none(c, q, rx) ==
    LET props == parse_props(get_time(c.time_start_input), get_time(c.time_end_input),
                             c.date_start, c.date_end, c.interval)
    IN IF props # None
       THEN IF is_valid(props[1])
            THEN LET send_result == send(q, rx, props[1])
                 IN IF send_result.ok
                    THEN [self |-> c, q |-> send_result.q,
                          log |-> "sent props for export"]
                    ELSE [self |-> c, q |-> send_result.q,
                          log |-> "failed to send props for export"]
            ELSE [self |-> [c EXCEPT !.valid = FALSE], q |-> q, log |-> "invalid props"]
       ELSE [self |-> c, q |-> q, log |-> "failed to parse props"]

\* lines 234-264: the "export" button was clicked; q, rx are export_pub.
\* Returns the fields, the channel and the line logged.
export_clicked(c, q, rx) ==
    LET props == parse_props(get_time(c.time_start_input), get_time(c.time_end_input),
                             c.date_start, c.date_end, c.interval)
    IN IF props # None
       THEN IF is_valid(props[1])
            THEN LET send_result == send(q, rx, props[1])
                 IN IF send_result.ok
                    THEN [self |-> c, q |-> send_result.q,
                          log |-> "sent props for export"]
                    ELSE [self |-> c, q |-> send_result.q,
                          log |-> "failed to send props for export"]
            ELSE [self |-> [c EXCEPT !.valid = FALSE], q |-> q, log |-> "invalid props"]
       ELSE [self |-> [c EXCEPT !.valid = FALSE], q |-> q, log |-> "failed to parse props"]

\* lines 267-269: the label drawn at the bottom of the window
label(c) == IF ~c.valid THEN <<"invalid time format or start > end">> ELSE <<>>

\* window with a slip: the export button sends on props_pub, as the show
\* button it was copied from does
window_export_on_show(c, ev, pq, prx, eq, erx) ==
    LET quiet(c2) == [self |-> c2, props_pub |-> pq, export_pub |-> eq]
    IN IF ~c.visible THEN quiet(c)
       ELSE CASE ev.kind = "none" -> quiet(c)
              [] ev.kind = "close" -> quiet([c EXCEPT !.visible = FALSE])
              [] ev.kind = "date_start" -> quiet([c EXCEPT !.date_start = ev.arg])
              [] ev.kind = "date_end" -> quiet([c EXCEPT !.date_end = ev.arg])
              [] ev.kind = "time_start" ->
                   quiet([c EXCEPT !.time_start_input = [val |-> ev.arg]])
              [] ev.kind = "time_end" ->
                   quiet([c EXCEPT !.time_end_input = [val |-> ev.arg]])
              [] ev.kind = "interval" -> quiet([c EXCEPT !.interval = ev.arg])
              [] ev.kind = "show" ->
                   LET r == show_clicked(c, pq, prx)
                   IN [self |-> r.self, props_pub |-> r.q, export_pub |-> eq]
              [] ev.kind = "export" ->
                   LET r == export_clicked(c, pq, prx)
                   IN [self |-> r.self, props_pub |-> r.q, export_pub |-> eq]

\* lines 160-270: the window's contents for one frame in which the widget
\* event ev happens. pq, prx are props_pub and eq, erx are export_pub.
\* Returns the fields and the two outbound channels after the frame.
window(c, ev, pq, prx, eq, erx) ==
    LET quiet(c2) == [self |-> c2, props_pub |-> pq, export_pub |-> eq]
    IN IF ~c.visible THEN quiet(c)
       ELSE CASE ev.kind = "none" -> quiet(c)
              [] ev.kind = "close" -> quiet([c EXCEPT !.visible = FALSE])
              [] ev.kind = "date_start" -> quiet([c EXCEPT !.date_start = ev.arg])
              [] ev.kind = "date_end" -> quiet([c EXCEPT !.date_end = ev.arg])
              [] ev.kind = "time_start" ->
                   quiet([c EXCEPT !.time_start_input = [val |-> ev.arg]])
              [] ev.kind = "time_end" ->
                   quiet([c EXCEPT !.time_end_input = [val |-> ev.arg]])
              [] ev.kind = "interval" -> quiet([c EXCEPT !.interval = ev.arg])
              [] ev.kind = "show" ->
                   LET r == show_clicked(c, pq, prx)
                   IN [self |-> r.self, props_pub |-> r.q, export_pub |-> eq]
              [] ev.kind = "export" ->
                   LET r == export_clicked(c, eq, erx)
                   IN [self |-> r.self, props_pub |-> pq, export_pub |-> r.q]

\* polled with a slip: props_sub is polled only when symbol_sub gave nothing
polled_else_if(c, sq, pq) ==
    IF sq # <<>> THEN recv_symbol(c, sq) ELSE recv_props(c, pq)

\* polled with a slip: a timeout on symbol_sub ends the polling for the frame
polled_return_on_timeout(c, sq, pq) ==
    IF sq = <<>> THEN c ELSE recv_props(recv_symbol(c, sq), pq)

\* the fields once both inbound channels have been polled (lines 136-158)
polled(c, sq, pq) == recv_props(recv_symbol(c, sq), pq)

\* lines 135-271: one frame of AppWindow::show in which widget event ev happens
show(ev) ==
    LET c == polled(self, symbol_sub, props_sub)
        r == window(c, ev, props_pub, props_rx, export_pub, export_rx)
    IN /\ UNCHANGED <<props_rx, export_rx, volume>>
       /\ symbol_sub' = drained(symbol_sub)
       /\ props_sub' = drained(props_sub)
       /\ ev.kind # "none" => c.visible
       /\ Len(r.props_pub) + Len(r.export_pub) <= MaxOut
       /\ self' = r.self
       /\ props_pub' = r.props_pub
       /\ export_pub' = r.export_pub

\* lines 129-133: the "Props" toggle button was clicked
toggle_btn ==
    /\ self' = [self EXCEPT !.visible = ~self.visible]
    /\ UNCHANGED <<chans, call, volume>>

-----------------------------------------------------------------------------
(* Inputs *)

Symbols == {"ETHUSDT"}

\* intervals a user picks in the combo box
PickedIntervals == {"Day", "Hour"}

\* texts a user can leave in a time field: two times of day and one that
\* does not parse (hour 24)
TimeTexts == {<<0, 0, 1>>, <<23, 59, 59>>, <<24, 0, 0>>}

\* a Props as its producers build it: bounds derived from the instants
Props(ds, de, ts, te, iv) ==
    [date_start |-> ds, date_end |-> de, time_start |-> ts, time_end |-> te,
     interval |-> iv,
     bounds |-> << <<timestamp_millis(and_time(ds, ts)), timestamp_millis(and_time(de, te))>> >>,
     limit |-> Limit]

\* Props other components push on props_sub: a one-day range whose times
\* carry a sub-second part, and a reversed range
InProps ==
    { Props(MaxDate, MaxDate, NaiveTime(0, 0, 1, 500000000),
            NaiveTime(23, 59, 59, 250000000), "Hour"),
      Props(MaxDate, 0, from_hms(23, 59, 59), from_hms(0, 0, 1), "Day") }

NoCall == [args |-> <<>>, ret |-> <<>>]

-----------------------------------------------------------------------------
(* The volume widget (widgets/volume.rs) *)

\* Data::default(): no samples
Data_default == [vals |-> <<>>]

RECURSIVE max_of(_)
max_of(vs) ==
    IF vs = <<>> THEN 0
    ELSE LET m == max_of(Tail(vs)) IN IF Head(vs).volume > m THEN Head(vs).volume ELSE m

\* Data::max_vol: the largest volume of the samples, zero when there are none
max_vol(data) == max_of(data.vals)

\* f64 values are kept exactly, in tenths
Tenths(n) == 10 * n

\* lines 44-46 with a slip: the width is made positive
Bar_of_abs_width(k) ==
    [argument |-> Tenths(k.t_open + k.t_close) \div 2,
     value |-> Tenths(k.volume),
     bar_width |-> IF k.t_open >= k.t_close
                   THEN 9 * (k.t_open - k.t_close) ELSE 9 * (k.t_close - k.t_open)]

\* lines 44-46: Bar::new((t_open + t_close) / 2.0, volume).width((t_open - t_close) * 0.9)
Bar_of(k) ==
    [argument |-> Tenths(k.t_open + k.t_close) \div 2,
     value |-> Tenths(k.volume),
     bar_width |-> 9 * (k.t_open - k.t_close)]

\* lines 20-29: Volume::default(), which Volume::new completes (lines 32-37)
Volume_default == [data |-> Data_default, val |-> <<>>, enabled |-> TRUE]

\* set_data with a slip: an empty Data is ignored and the bars are kept
set_data_skip_empty(v, data) ==
    IF data.vals = <<>> THEN v
    ELSE [v EXCEPT !.data = data,
                   !.val = [i \in 1..Len(data.vals) |-> Bar_of(data.vals[i])]]

\* lines 39-52: Volume::set_data
set_data(v, data) ==
    [v EXCEPT !.data = data,
              !.val = [i \in 1..Len(data.vals) |-> Bar_of(data.vals[i])]]

\* set_enabled with a slip: a disabled widget drops its bars
set_enabled_clears(v, enabled) ==
    [v EXCEPT !.enabled = enabled, !.val = IF enabled THEN @ ELSE <<>>]

\* lines 54-56: Volume::set_enabled
set_enabled(v, enabled) == [v EXCEPT !.enabled = enabled]

\* (ts / 1000f64) as i64, line 88: the cast drops the fraction, towards zero
secs_of(ts) == IF ts >= 0 THEN ts \div 1000 ELSE 0 - ((0 - ts) \div 1000)

\* "%Y-%m-%d %H:%M:%S" of the instant secs seconds from the epoch, lines
\* 89-92: the day number stands for the date
formatted(secs) ==
    [day |-> secs \div 86400,
     H |-> (secs % 86400) \div 3600,
     M |-> (secs % 3600) \div 60,
     S |-> secs % 60]

\* lines 87-93: format_ts
format_ts(ts) == formatted(secs_of(ts))

-----------------------------------------------------------------------------
(* The window in its application *)

Init ==
    /\ \E visible \in BOOLEAN, props \in InProps : self = new(visible, props)
    /\ symbol_sub = <<>>
    /\ props_sub = <<>>
    /\ props_pub = <<>>
    /\ export_pub = <<>>
    /\ props_rx = TRUE
    /\ export_rx = TRUE
    /\ call = NoCall
    /\ volume = Volume_default

FrameIdle == show([kind |-> "none"]) /\ UNCHANGED call
FrameClose == show([kind |-> "close"]) /\ UNCHANGED call
FrameDateStart == \E d \in Dates : show([kind |-> "date_start", arg |-> d]) /\ UNCHANGED call
FrameDateEnd == \E d \in Dates : show([kind |-> "date_end", arg |-> d]) /\ UNCHANGED call
FrameTimeStart == \E t \in TimeTexts : show([kind |-> "time_start", arg |-> t]) /\ UNCHANGED call
FrameTimeEnd == \E t \in TimeTexts : show([kind |-> "time_end", arg |-> t]) /\ UNCHANGED call
FrameInterval == \E i \in PickedIntervals : show([kind |-> "interval", arg |-> i]) /\ UNCHANGED call
FrameShow == show([kind |-> "show"]) /\ UNCHANGED call
FrameExport == show([kind |-> "export"]) /\ UNCHANGED call

\* the symbol panel publishes a symbol
SendSymbol ==
    /\ Len(symbol_sub) < MaxQueue
    /\ \E s \in Symbols : symbol_sub' = Append(symbol_sub, s)
    /\ UNCHANGED <<self, props_sub, props_pub, export_pub, props_rx, export_rx, call, volume>>

\* another component publishes a Props
SendProps ==
    /\ Len(props_sub) < MaxQueue
    /\ \E p \in InProps : props_sub' = Append(props_sub, p)
    /\ UNCHANGED <<self, symbol_sub, props_pub, export_pub, props_rx, export_rx, call, volume>>

\* the consumer of the "show" channel takes a message
TakeShow ==
    /\ props_rx /\ props_pub # <<>>
    /\ props_pub' = Tail(props_pub)
    /\ UNCHANGED <<self, symbol_sub, props_sub, export_pub, props_rx, export_rx, call, volume>>

\* the consumer of the "export" channel takes a message
TakeExport ==
    /\ export_rx /\ export_pub # <<>>
    /\ export_pub' = Tail(export_pub)
    /\ UNCHANGED <<self, symbol_sub, props_sub, props_pub, props_rx, export_rx, call, volume>>

\* the receiver of the "show" channel is dropped, and its queue with it
DropShowReceiver ==
    /\ props_rx
    /\ props_rx' = FALSE
    /\ props_pub' = <<>>
    /\ UNCHANGED <<self, symbol_sub, props_sub, export_pub, export_rx, call, volume>>

\* the receiver of the "export" channel is dropped, and its queue with it
DropExportReceiver ==
    /\ export_rx
    /\ export_rx' = FALSE
    /\ export_pub' = <<>>
    /\ UNCHANGED <<self, symbol_sub, props_sub, props_pub, props_rx, call, volume>>

Next ==
    \/ FrameIdle
    \/ FrameClose
    \/ FrameDateStart
    \/ FrameDateEnd
    \/ FrameTimeStart
    \/ FrameTimeEnd
    \/ FrameInterval
    \/ FrameShow
    \/ FrameExport
    \/ toggle_btn
    \/ SendSymbol
    \/ SendProps
    \/ TakeShow
    \/ TakeExport
    \/ DropShowReceiver
    \/ DropExportReceiver

Spec == Init /\ [][Next]_vars

-----------------------------------------------------------------------------
(* parse_props called directly on every combination of its arguments *)

\* times of day handed to parse_props: midnight, one second past, one
\* nanosecond after that, and the last nanosecond of the day
ParseTimes ==
    { NaiveTime(0, 0, 0, 0), NaiveTime(0, 0, 1, 0), NaiveTime(0, 0, 1, 1),
      NaiveTime(23, 59, 59, 999999999) }

\* days handed to parse_props, one of them before the epoch
ParseDates == (0 - 1)..MaxDate

InitParse ==
    /\ self = new(TRUE, Props(0, MaxDate, from_hms(0, 0, 1), from_hms(23, 59, 59), "Day"))
    /\ symbol_sub = <<>>
    /\ props_sub = <<>>
    /\ props_pub = <<>>
    /\ export_pub = <<>>
    /\ props_rx = TRUE
    /\ export_rx = TRUE
    /\ \E ts, te \in {None} \cup {Some(t) : t \in ParseTimes},
          ds, de \in ParseDates, iv \in Intervals :
           call = [args |-> <<ts, te, ds, de, iv>>, ret |-> <<>>]
    /\ volume = Volume_default

\* the call returns: ret holds the Option<Props> in a one-element sequence
CallParseProps ==
    /\ call.ret = <<>>
    /\ call' = [call EXCEPT !.ret =
                  <<parse_props(call.args[1], call.args[2], call.args[3],
                                call.args[4], call.args[5])>>]
    /\ UNCHANGED <<self, chans, volume>>

SpecParse == InitParse /\ [][CallParseProps]_vars

-----------------------------------------------------------------------------
(* unpack_props called twice on a window and a Props, then the fields parsed *)

\* times of day of an unpacked Props, one with a sub-second part
UnpackTimes ==
    { NaiveTime(0, 0, 1, 0), NaiveTime(12, 34, 56, 500000000), NaiveTime(23, 59, 59, 0) }

\* the Props unpacked
UnpackProps ==
    { Props(ds, de, ts, te, iv) :
        ds \in Dates, de \in Dates, ts \in UnpackTimes, te \in UnpackTimes,
        iv \in {"Hour", "Minute"} }

\* the windows a Props is unpacked into
UnpackWindows ==
    { [symbol |-> "ETHUSDT", valid |-> v, visible |-> TRUE,
       date_start |-> ds, date_end |-> de, interval |-> iv,
       time_start_input |-> [val |-> t], time_end_input |-> TimeInput_new(0, 0, 1)] :
        v \in BOOLEAN, ds \in Dates, de \in Dates, iv \in Intervals,
        t \in {<<23, 59, 59>>, <<24, 0, 0>>} }

InitUnpack ==
    /\ symbol_sub = <<>>
    /\ props_sub = <<>>
    /\ props_pub = <<>>
    /\ export_pub = <<>>
    /\ props_rx = TRUE
    /\ export_rx = TRUE
    /\ \E c \in UnpackWindows, p \in UnpackProps :
          /\ self = c
          /\ call = [args |-> <<c, p>>, ret |-> <<>>]
    /\ volume = Volume_default

\* unpack_props(p) is called; ret records the fields after the call
CallUnpackProps ==
    /\ Len(call.ret) < 2
    /\ self' = unpack_props(self, call.args[2])
    /\ call' = [call EXCEPT !.ret = Append(@, self')]
    /\ UNCHANGED <<chans, volume>>

\* the fields are read back as a click does (lines 203-209), with the
\* interval of the Props; ret records the Option<Props>
CallParseUnpacked ==
    /\ Len(call.ret) = 2
    /\ call' = [call EXCEPT !.ret =
                  Append(@, parse_props(get_time(self.time_start_input),
                                        get_time(self.time_end_input),
                                        self.date_start, self.date_end,
                                        call.args[2].interval))]
    /\ UNCHANGED <<self, chans, volume>>

SpecUnpack == InitUnpack /\ [][CallUnpackProps \/ CallParseUnpacked]_vars

-----------------------------------------------------------------------------
(* set_data and set_enabled called on a Volume in any order *)

\* the samples of a Data: t_open before, after and an odd distance from t_close
Samples ==
    { [t_open |-> 1000, t_close |-> 2000, volume |-> 50],
      [t_open |-> 2000, t_close |-> 1000, volume |-> 70],
      [t_open |-> 1001, t_close |-> 2000, volume |-> 0] }

RECURSIVE SeqsUpTo(_, _)
SeqsUpTo(S, n) ==
    IF n = 0 THEN {<<>>}
    ELSE LET shorter == SeqsUpTo(S, n - 1)
         IN shorter \cup {Append(q, x) : q \in shorter, x \in S}

\* the Data handed to set_data
Datas == { [vals |-> q] : q \in SeqsUpTo(Samples, MaxBars) }

\* the window of the other specifications, at rest
RestWindow == new(TRUE, Props(0, MaxDate, from_hms(0, 0, 1), from_hms(23, 59, 59), "Day"))

InitVolume ==
    /\ self = RestWindow
    /\ symbol_sub = <<>>
    /\ props_sub = <<>>
    /\ props_pub = <<>>
    /\ export_pub = <<>>
    /\ props_rx = TRUE
    /\ export_rx = TRUE
    /\ call = NoCall
    /\ volume = Volume_default

\* set_data(data) is called; call records the call and the fields before it
CallSetData ==
    \E data \in Datas :
        /\ volume' = set_data(volume, data)
        /\ call' = [args |-> <<"set_data", data>>, ret |-> <<volume>>]
        /\ UNCHANGED <<self, chans>>

\* set_enabled(enabled) is called
CallSetEnabled ==
    \E enabled \in BOOLEAN :
        /\ volume' = set_enabled(volume, enabled)
        /\ call' = [args |-> <<"set_enabled", enabled>>, ret |-> <<volume>>]
        /\ UNCHANGED <<self, chans>>

SpecVolume == InitVolume /\ [][CallSetData \/ CallSetEnabled]_vars

-----------------------------------------------------------------------------
(* format_ts called on a millisecond timestamp *)

InitFormat ==
    /\ self = RestWindow
    /\ symbol_sub = <<>>
    /\ props_sub = <<>>
    /\ props_pub = <<>>
    /\ export_pub = <<>>
    /\ props_rx = TRUE
    /\ export_rx = TRUE
    /\ volume = Volume_default
    /\ \E ts \in (0 - MaxMs)..MaxMs : call = [args |-> <<ts>>, ret |-> <<>>]

\* the call returns: ret holds the text
CallFormatTs ==
    /\ call.ret = <<>>
    /\ call' = [call EXCEPT !.ret = <<format_ts(call.args[1])>>]
    /\ UNCHANGED <<self, chans, volume>>

SpecFormat == InitFormat /\ [][CallFormatTs]_vars

-----------------------------------------------------------------------------
(* Frames of the window while producers queue several messages *)

FifoSymbols == {"BTCUSDT", "ETHUSDT"}

\* call.args holds the symbols and the Props sent so far; call.ret holds the
\* frames since the last send and the lengths of the channels after it
InitFifo ==
    /\ self = RestWindow
    /\ symbol_sub = <<>>
    /\ props_sub = <<>>
    /\ props_pub = <<>>
    /\ export_pub = <<>>
    /\ props_rx = TRUE
    /\ export_rx = TRUE
    /\ call = [args |-> << <<>>, <<>> >>, ret |-> <<0, 0, 0>>]
    /\ volume = Volume_default

\* the symbol panel publishes a symbol
PublishSymbol ==
    /\ Len(call.args[1]) < MaxFifo
    /\ \E s \in FifoSymbols :
          /\ symbol_sub' = Append(symbol_sub, s)
          /\ call' = [args |-> <<Append(call.args[1], s), call.args[2]>>,
                      ret |-> <<0, Len(symbol_sub'), Len(props_sub)>>]
    /\ UNCHANGED <<self, props_sub, props_pub, export_pub, props_rx, export_rx, volume>>

\* another component publishes a Props
PublishProps ==
    /\ Len(call.args[2]) < MaxFifo
    /\ \E p \in InProps :
          /\ props_sub' = Append(props_sub, p)
          /\ call' = [args |-> <<call.args[1], Append(call.args[2], p)>>,
                      ret |-> <<0, Len(symbol_sub), Len(props_sub')>>]
    /\ UNCHANGED <<self, symbol_sub, props_pub, export_pub, props_rx, export_rx, volume>>

\* one frame of show without a widget event
Tick ==
    /\ show([kind |-> "none"])
    /\ call' = [call EXCEPT !.ret[1] = IF @ < MaxFifo THEN @ + 1 ELSE @]

NextFifo == PublishSymbol \/ PublishProps \/ Tick \/ toggle_btn

\* frames keep occurring
SpecFifo == InitFifo /\ [][NextFifo]_vars /\ WF_vars(Tick)

-----------------------------------------------------------------------------
(* Vocabulary of the properties *)

\* instant (d1, t1) is strictly before instant (d2, t2), compared field by
\* field (a time of day is less than one day long)
InstantBefore(d1, t1, d2, t2) ==
    \/ d1 < d2
    \/ d1 = d2 /\ t1.secs < t2.secs
    \/ d1 = d2 /\ t1.secs = t2.secs /\ t1.frac < t2.frac

\* milliseconds since the epoch of time-of-day t on day d
InstantMs(d, t) == d * 86400000 + t.secs * 1000 + t.frac \div 1000000

\* the direct call has returned Some(p)
Returned == call.ret # <<>>
ReturnedSome == Returned /\ call.ret[1] # None
RetProps == call.ret[1][1]

\* what a button click would parse from fields c
Parsed(c) ==
    parse_props(get_time(c.time_start_input), get_time(c.time_end_input),
                c.date_start, c.date_end, c.interval)

\* a click on fields c fails: nothing parses, or the parsed Props is not valid
Fails(c) == Parsed(c) = None \/ ~is_valid(Parsed(c)[1])

\* the fields a frame's widgets see, after both polls
Seen == polled(self, symbol_sub, props_sub)

-----------------------------------------------------------------------------
(* Properties *)

\* C1: every Props in flight on props_pub or export_pub satisfies is_valid():
\* no Props whose start instant is not strictly before its end instant is
\* ever sent on an outbound channel.
C1_SentPropsAreValid ==
    /\ \A i \in 1..Len(props_pub) : is_valid(props_pub[i])
    /\ \A i \in 1..Len(export_pub) : is_valid(export_pub[i])

\* a Props is in flight on the show channel while the error flag is set
C1_Witness == props_pub # <<>> /\ ~self.valid

\* C2: parse_props returns None exactly when time_start or time_end is absent,
\* whatever the other arguments are.
C2_NoneIffTimeAbsent ==
    Returned =>
        ((call.ret[1] = None) <=> (call.args[1] = None \/ call.args[2] = None))

\* parse_props returned None for an absent start time and a present end time
C2_Witness ==
    Returned /\ call.ret[1] = None /\ call.args[1] = None /\ call.args[2] # None

\* C3: for every Props parse_props returns, is_valid() holds iff the start
\* instant (date_start + time_start) is strictly before the end instant
\* (date_end + time_end); in particular it holds for d1 <= d2 with t1 < t2 and
\* fails for equal instants.
C3_ValidIffStartBeforeEnd ==
    ReturnedSome =>
        LET d1 == call.args[3]
            d2 == call.args[4]
            t1 == call.args[1][1]
            t2 == call.args[2][1]
        IN /\ is_valid(RetProps) <=> InstantBefore(d1, t1, d2, t2)
           /\ (d1 <= d2 /\ InstantBefore(0, t1, 0, t2)) => is_valid(RetProps)
           /\ (d1 = d2 /\ t1 = t2) => ~is_valid(RetProps)

\* parse_props returned a Props of two equal instants, which is not valid
C3_Witness ==
    /\ ReturnedSome
    /\ call.args[3] = call.args[4]
    /\ call.args[1] = call.args[2]
    /\ ~is_valid(RetProps)

\* C4: every Props parse_props returns has exactly one Bounds, (start instant
\* in ms, end instant in ms), carries the dates, times and interval it was
\* given, and has limit 1000.
C4_BoundsAndFields ==
    ReturnedSome =>
        /\ Len(RetProps.bounds) = 1
        /\ RetProps.bounds[1] = <<InstantMs(call.args[3], call.args[1][1]),
                                  InstantMs(call.args[4], call.args[2][1])>>
        /\ RetProps.time_start = call.args[1][1]
        /\ RetProps.time_end = call.args[2][1]
        /\ RetProps.date_start = call.args[3]
        /\ RetProps.date_end = call.args[4]
        /\ RetProps.interval = call.args[5]
        /\ RetProps.limit = 1000

\* parse_props returned a Props for a pre-epoch start day and times with a
\* sub-millisecond part
C4_Witness ==
    /\ ReturnedSome
    /\ call.args[3] < 0
    /\ call.args[4] > 0
    /\ call.args[1][1].frac % 1000000 # 0
    /\ call.args[2][1].frac % 1000000 # 0

\* C5 as stated: every Bounds parse_props constructs has start_ms <= end_ms,
\* for every combination of dates and present times.
C5_Original ==
    ReturnedSome => RetProps.bounds[1][1] <= RetProps.bounds[1][2]

\* C5 amended: the Bounds parse_props constructs has start_ms <= end_ms
\* whenever the start instant is not after the end instant (so for every
\* Props that is_valid()); parse_props does not reject a reversed range.
C5_OrderedWhenNotReversed ==
    (ReturnedSome /\ ~InstantBefore(call.args[4], call.args[2][1],
                                    call.args[3], call.args[1][1]))
        => RetProps.bounds[1][1] <= RetProps.bounds[1][2]

\* parse_props returned a valid Props whose two instants share a millisecond
C5_Witness ==
    /\ ReturnedSome
    /\ is_valid(RetProps)
    /\ RetProps.bounds[1][1] = RetProps.bounds[1][2]

\* C6: a show or export click that fails (parse_props returns None, or the
\* parsed Props is not valid) leaves valid = FALSE and sends nothing on
\* either outbound channel.
C6_FailedClickSetsInvalidSendsNothing ==
    [][((FrameShow \/ FrameExport) /\ Fails(Seen))
          => (/\ self'.valid = FALSE
              /\ props_pub' = props_pub
              /\ export_pub' = export_pub)]_vars

\* the error flag is set and the start time field does not parse
C6_Witness ==
    /\ ~self.valid
    /\ self.visible
    /\ get_time(self.time_start_input) = None
    /\ get_time(self.time_end_input) # None

\* C7 as stated: after a show or export click that parses and validates,
\* valid is TRUE, even when an earlier click had set it to FALSE.
C7_ValidResetOnSuccess ==
    [][(~Fails(Seen) /\ (FrameShow \/ FrameExport)) => self'.valid = TRUE]_vars

C9_SendFailureChangesNothing ==
    /\ [][(~props_rx /\ FrameShow /\ ~Fails(Seen))
             => (self' = Seen /\ props_pub' = props_pub /\ export_pub' = export_pub)]_vars
    /\ [][(~export_rx /\ FrameExport /\ ~Fails(Seen))
             => (self' = Seen /\ props_pub' = props_pub /\ export_pub' = export_pub)]_vars

\* the show receiver is gone, the fields parse to a valid Props and the
\* error flag is clear
C9_Witness ==
    /\ ~props_rx
    /\ self.visible
    /\ self.valid
    /\ ~Fails(self)

\* C10: a frame without a button click sends nothing, whatever it receives;
\* a show click queues at most one Props, on props_pub only; an export click
\* queues at most one Props, on export_pub only; and no other step queues a
\* Props on either channel.
C10_SendsOnlyOnClick ==
    /\ [][(~(props_pub' = props_pub /\ export_pub' = export_pub)
            /\ (FrameIdle \/ FrameClose \/ FrameDateStart \/ FrameDateEnd \/ FrameTimeStart
                  \/ FrameTimeEnd \/ FrameInterval))
             => FALSE]_vars
    /\ [][(~(props_pub' = props_pub /\ export_pub' = export_pub) /\ FrameShow)
             => (/\ export_pub' = export_pub
                 /\ Len(props_pub') = Len(props_pub) + 1
                 /\ \A i \in 1..Len(props_pub) : props_pub'[i] = props_pub[i])]_vars
    /\ [][(~(props_pub' = props_pub /\ export_pub' = export_pub) /\ FrameExport)
             => (/\ props_pub' = props_pub
                 /\ Len(export_pub') = Len(export_pub) + 1
                 /\ \A i \in 1..Len(export_pub) : export_pub'[i] = export_pub[i])]_vars
    /\ [][Len(props_pub') > Len(props_pub) => FrameShow]_vars
    /\ [][Len(export_pub') > Len(export_pub) => FrameExport]_vars

\* a Props is in flight on the export channel and none on the show channel
C10_Witness == export_pub # <<>> /\ props_pub = <<>> /\ props_rx

\* the date and time fields of the window
DateTimeFields(c) == <<c.date_start, c.date_end, c.time_start_input, c.time_end_input>>

\* the date and time fields a received Props P is unpacked to
FieldsOf(P) ==
    <<P.date_start, P.date_end,
      [val |-> <<P.time_start.secs \div 3600, (P.time_start.secs % 3600) \div 60,
                 P.time_start.secs % 60>>],
      [val |-> <<P.time_end.secs \div 3600, (P.time_end.secs % 3600) \div 60,
                 P.time_end.secs % 60>>]>>

\* C11: a receive that times out is no update. The symbol changes only in a
\* step that finds a symbol on symbol_sub; with props_sub empty the date and
\* time fields change only by the user's edit of that frame; valid becomes
\* FALSE only by a failing click; and a timeout on one channel does not keep
\* the frame from receiving from the other.
C11_TimeoutIsNoUpdate ==
    /\ [][self'.symbol # self.symbol => symbol_sub # <<>>]_vars
    /\ [][(DateTimeFields(self') # DateTimeFields(self) /\ props_sub = <<>>)
             => (FrameDateStart \/ FrameDateEnd \/ FrameTimeStart \/ FrameTimeEnd)]_vars
    /\ [][(self.valid /\ ~self'.valid)
             => ((FrameShow \/ FrameExport) /\ Fails(Seen))]_vars
    /\ [][(/\ symbol_sub = <<>>
           /\ props_sub # <<>>
           /\ ~(props_sub' = Tail(props_sub)
                  /\ DateTimeFields(self') = FieldsOf(Head(props_sub))))
             => ~(FrameIdle \/ FrameClose \/ FrameInterval \/ FrameShow \/ FrameExport)]_vars
    /\ [][(/\ props_sub = <<>>
           /\ symbol_sub # <<>>
           /\ ~(symbol_sub' = Tail(symbol_sub) /\ self'.symbol = Head(symbol_sub)))
             => ~(FrameIdle \/ FrameClose \/ FrameDateStart \/ FrameDateEnd
                    \/ FrameTimeStart \/ FrameTimeEnd \/ FrameInterval
                    \/ FrameShow \/ FrameExport)]_vars

\* a Props was received in a frame whose poll of symbol_sub timed out: the
\* symbol is still the initial one, the fields are those of the sub-second
\* Props, and a symbol has arrived since
C11_Witness ==
    /\ self.symbol = ""
    /\ symbol_sub # <<>>
    /\ props_sub = <<>>
    /\ self.valid
    /\ self.interval = "Day"
    /\ DateTimeFields(self) =
          <<MaxDate, MaxDate, [val |-> <<0, 0, 1>>], [val |-> <<23, 59, 59>>]>>

\* the window and the Props of the unpack_props calls, and their results
Window0 == call.args[1]
Unpacked == call.args[2]
UnpackedOnce == Len(call.ret) >= 1
UnpackedTwice == Len(call.ret) >= 2
Reparsed == Len(call.ret) = 3

\* C12: unpack_props is idempotent: the fields after unpacking the same
\* Props a second time are the fields after unpacking it once.
C12_UnpackIdempotent ==
    UnpackedTwice => call.ret[2] = call.ret[1]

\* a Props was unpacked twice into a window whose dates and time fields it
\* changed
C12_Witness ==
    /\ UnpackedTwice
    /\ Window0.date_start # Unpacked.date_start
    /\ Window0.date_end # Unpacked.date_end
    /\ get_time(Window0.time_start_input) = None
    /\ self # Window0

\* C13 as stated: for every Props p, unpacking p and parsing the fields with
\* p's interval gives a Props with p's start and end instants and bounds.
C13_RoundTrip ==
    Reparsed =>
        /\ call.ret[3] # None
        /\ start_time(call.ret[3][1]) = start_time(Unpacked)
        /\ end_time(call.ret[3][1]) = end_time(Unpacked)
        /\ call.ret[3][1].bounds = Unpacked.bounds

\* C13 amended: the round trip reproduces p's instants and bounds for every
\* Props p whose time_start and time_end are whole seconds.
C13_RoundTripWholeSeconds ==
    (Reparsed /\ Unpacked.time_start.frac = 0 /\ Unpacked.time_end.frac = 0) =>
        /\ call.ret[3] # None
        /\ start_time(call.ret[3][1]) = start_time(Unpacked)
        /\ end_time(call.ret[3][1]) = end_time(Unpacked)
        /\ call.ret[3][1].bounds = Unpacked.bounds

\* a whole-second Props with different times and dates was unpacked into a
\* window whose start time field did not parse, and the fields parsed again
C13_Witness ==
    /\ Reparsed
    /\ Unpacked.time_start.frac = 0
    /\ Unpacked.time_end.frac = 0
    /\ Unpacked.time_start # Unpacked.time_end
    /\ Unpacked.date_start # Unpacked.date_end
    /\ get_time(Window0.time_start_input) = None
    /\ call.ret[3] # None

\* C14: unpack_props changes only date_start, date_end and the two time
\* fields: interval stays the window's own (it does not become the Props'),
\* and symbol, valid and visible stay as they were, so the poll of props_sub
\* that receives a Props neither clears nor sets valid.
C14_UnpackLeavesOtherFields ==
    UnpackedOnce =>
        /\ call.ret[1].interval = Window0.interval
        /\ call.ret[1].symbol = Window0.symbol
        /\ call.ret[1].valid = Window0.valid
        /\ call.ret[1].visible = Window0.visible
        /\ DOMAIN call.ret[1] = DOMAIN Window0
        /\ DateTimeFields(call.ret[1]) = FieldsOf(Unpacked)
        /\ recv_props(Window0, <<Unpacked>>) = call.ret[1]

\* a Props of another interval was unpacked into a window whose error flag
\* was set
C14_Witness ==
    /\ UnpackedOnce
    /\ Unpacked.interval # Window0.interval
    /\ ~Window0.valid
    /\ self.interval = Window0.interval
    /\ DateTimeFields(self) # DateTimeFields(Window0)

\* the line a click on a button logs in this frame
ShowLog == show_clicked(Seen, props_pub, props_rx).log
ExportLog == export_clicked(Seen, export_pub, export_rx).log

\* the line a failed click logs (lines 223, 228)
FailureLine == IF Parsed(Seen) = None THEN "failed to parse props" ELSE "invalid props"

\* C15 as stated: a failed click shows "failed to parse props" when
\* parse_props returned None and "invalid time format or start > end" when
\* is_valid() is false.
C15_MessagesDiffer ==
    [][(Fails(Seen) /\ label(self') #
            (IF Parsed(Seen) = None
             THEN <<"failed to parse props">>
             ELSE <<"invalid time format or start > end">>))
         => ~(FrameShow \/ FrameExport)]_vars

\* C15 amended: both failures show the same label, "invalid time format or
\* start > end"; they differ in the line logged only: "failed to parse props"
\* when parse_props returned None, "invalid props" when is_valid() is false.
C15_SameLabelDifferentLog ==
    [][(Fails(Seen) /\ ~(/\ label(self') = <<"invalid time format or start > end">>
                       /\ ShowLog = FailureLine
                       /\ ExportLog = FailureLine))
         => ~(FrameShow \/ FrameExport)]_vars

\* a click failed, the label is drawn, and the next click would fail to parse
C15_Witness ==
    /\ ~self.valid
    /\ Parsed(self) = None
    /\ label(self) = <<"invalid time format or start > end">>
    /\ ShowLog = "failed to parse props"
    /\ props_pub = <<>>
    /\ export_pub = <<>>

\* the last call on the Volume, its argument and the fields before it
LastCall == IF call.args = <<>> THEN "none" ELSE call.args[1]
LastArg == call.args[2]
Before0 == call.ret[1]

\* C16: set_data replaces the owned Data and makes one Bar per sample, in
\* order, at position (t_open + t_close)/2, of width (t_open - t_close)*0.9
\* with its sign, and of height volume; the sample 1000, 2000, 50 gives the
\* Bar 1500, -900, 50. After any calls the bars are those of the Data set last.
C16_BarsOfLastData ==
    /\ LastCall = "set_data" => volume.data = LastArg
    /\ Len(volume.val) = Len(volume.data.vals)
    /\ \A i \in 1..Len(volume.val) :
          LET k == volume.data.vals[i]
              b == volume.val[i]
          IN /\ 2 * b.argument = Tenths(k.t_open + k.t_close)
             /\ Tenths(b.bar_width) = Tenths(k.t_open - k.t_close) * 9
             /\ b.value = Tenths(k.volume)
             /\ (k.t_open = 1000 /\ k.t_close = 2000 /\ k.volume = 50) =>
                   /\ b.argument = Tenths(1500)
                   /\ b.bar_width = Tenths(0 - 900)
                   /\ b.value = Tenths(50)

\* set_data replaced two samples by two others, the second one the sample
\* 1000, 2000, 50 whose bar has a negative width
C16_Witness ==
    /\ LastCall = "set_data"
    /\ Len(Before0.val) = MaxBars
    /\ Len(volume.val) = MaxBars
    /\ Before0.data # volume.data
    /\ volume.data.vals[2] = [t_open |-> 1000, t_close |-> 2000, volume |-> 50]
    /\ volume.val[2].bar_width < 0
    /\ volume.val[1].bar_width > 0

\* C17: set_data on an empty Data leaves no bars and a max_vol of zero,
\* also when the Data set before had samples.
C17_EmptyData ==
    (LastCall = "set_data" /\ LastArg.vals = <<>>) =>
        /\ volume.val = <<>>
        /\ volume.data.vals = <<>>
        /\ max_vol(volume.data) = 0

\* set_data was called with an empty Data on a Volume that had bars and a
\* positive max_vol
C17_Witness ==
    /\ LastCall = "set_data"
    /\ LastArg.vals = <<>>
    /\ Before0.val # <<>>
    /\ max_vol(Before0.data) > 0
    /\ volume.val = <<>>

\* C18: set_enabled changes the enabled flag only and set_data leaves it
\* alone, in every order of calls; the bars are as many as the samples.
C18_EnabledApart ==
    /\ LastCall = "set_enabled" =>
          /\ volume.enabled = LastArg
          /\ volume.data = Before0.data
          /\ volume.val = Before0.val
    /\ LastCall = "set_data" => volume.enabled = Before0.enabled
    /\ Len(volume.val) = Len(volume.data.vals)

\* a Volume with bars was disabled, and a disabled Volume got bars
C18_Witness ==
    \/ /\ LastCall = "set_enabled"
       /\ ~volume.enabled
       /\ Before0.enabled
       /\ Len(volume.val) = MaxBars
    \/ /\ LastCall = "set_data"
       /\ ~volume.enabled
       /\ Before0.val = <<>>
       /\ Len(volume.val) = MaxBars

\* floor(ms / 1000)
FloorSecs(ms) == ms \div 1000

\* C19: format_ts renders the instant floor(ms / 1000) seconds from the
\* epoch, for negative ms too.
C19_FloorSeconds ==
    call.ret # <<>> => call.ret[1] = formatted(FloorSecs(call.args[1]))

\* the messages sent on the inbound channels, the frames n since the last
\* send, and the k messages queued on each channel by then
SentSymbols == call.args[1]
SentProps == call.args[2]
Ticks == call.ret[1]
QueuedSymbols == call.ret[2]
QueuedProps == call.ret[3]
Min(a, b) == IF a < b THEN a ELSE b
AppliedSymbols == Len(SentSymbols) - QueuedSymbols + Min(Ticks, QueuedSymbols)
AppliedProps == Len(SentProps) - QueuedProps + Min(Ticks, QueuedProps)

\* after n frames exactly min(n, k) of k queued messages have been applied,
\* oldest first, and the window shows the last one applied
FifoApplied ==
    /\ Len(symbol_sub) = QueuedSymbols - Min(Ticks, QueuedSymbols)
    /\ symbol_sub = SubSeq(SentSymbols, AppliedSymbols + 1, Len(SentSymbols))
    /\ self.symbol = IF AppliedSymbols = 0 THEN RestWindow.symbol
                     ELSE SentSymbols[AppliedSymbols]
    /\ Len(props_sub) = QueuedProps - Min(Ticks, QueuedProps)
    /\ props_sub = SubSeq(SentProps, AppliedProps + 1, Len(SentProps))
    /\ DateTimeFields(self) = IF AppliedProps = 0 THEN DateTimeFields(RestWindow)
                              ELSE FieldsOf(SentProps[AppliedProps])

\* C20: a frame takes at most one message from symbol_sub and at most one
\* from props_sub, oldest first: n frames after k messages were queued,
\* min(n, k) of them are applied and the window shows the min(n, k)-th; while
\* frames keep occurring every queued message is applied in the end and both
\* channels become empty.
C20_OnePerFrameFifo ==
    /\ []FifoApplied
    /\ [][/\ Len(symbol_sub') >= Len(symbol_sub) - 1
          /\ Len(props_sub') >= Len(props_sub) - 1]_vars
    /\ <>[](symbol_sub = <<>> /\ props_sub = <<>>)
    /\ \A s \in FifoSymbols :
          (symbol_sub # <<>> /\ symbol_sub[Len(symbol_sub)] = s) ~> (self.symbol = s)
    /\ \A p \in InProps :
          (props_sub # <<>> /\ props_sub[Len(props_sub)] = p)
              ~> (DateTimeFields(self) = FieldsOf(p))

\* one frame after two different symbols and two different Props were
\* queued: the window shows the older of each, the newer are still queued
C20_Witness ==
    /\ Ticks = 1
    /\ QueuedSymbols = MaxFifo
    /\ QueuedProps = MaxFifo
    /\ SentSymbols[1] # SentSymbols[2]
    /\ SentProps[1] # SentProps[2]
    /\ self.symbol = SentSymbols[1]
    /\ DateTimeFields(self) = FieldsOf(SentProps[1])
    /\ symbol_sub = <<SentSymbols[2]>>
    /\ props_sub = <<SentProps[2]>>

====
